---- MODULE Spec2Model ----
(***************************************************************************)
(* A model of Display/placer.py: the s-expression block extractor          *)
(* (parse_s_expression_blocks), the field extractor                        *)
(* (get_footprint_details), the filter and sort (sort_components) and the  *)
(* placement driver (main).                                                *)
(*                                                                         *)
(* Text.  A text is a sequence of tokens.  The tokens are the lexical      *)
(* units the code distinguishes: the two parentheses, the words footprint, *)
(* property and at, a quoted string, a numeric token ([-\d.]+), the run of *)
(* four spaces the code inserts before a rewritten position field, and any *)
(* other atom.  A single separating blank between tokens is implicit.      *)
(* Offsets into a text are 0-based as in Python: content[i] is text[i+1].  *)
(*                                                                         *)
(* Numbers.  A numeric token carries its value in tenths (5.7 is 57,       *)
(* 199.1 is 1991, a rotation of 90 is 900) and the way it is written:      *)
(*   "int"  as an integer literal            90                            *)
(*   "repr" as Python prints a float         90.0                          *)
(*   "f4"   with four decimals (:.4f)        5.7000                        *)
(*   "bad"  matched by [-\d.]+ but not a number (1.2.3): float() raises    *)
(* Two numeric tokens are the same text iff value and style agree.         *)
(*                                                                         *)
(* Optional values (None in Python) are sequences of length at most one:   *)
(* <<>> is None and <<x>> is the value x.                                  *)
(***************************************************************************)
EXTENDS Integers, Sequences, FiniteSets, TLC

VARIABLES
    input_file,        \* Display.kicad_pcb: <<>> if absent, else <<text>>
    output_file,       \* Display_modified.kicad_pcb: <<>> if absent, else <<text>>
    pc,                \* position in main
    exception,         \* "" or the name of the exception that left main
    original_content,  \* main: the text read
    start_index,       \* parse_s_expression_blocks: the search cursor
    footprint_strings, \* parse_s_expression_blocks: blocks / main: footprint_strings
    block_starts,      \* history: block_start of every block appended
    block_now,         \* history: where each block starts in modified_content
    all_components,    \* main
    displays,          \* main
    resistors,         \* main
    modified_content,  \* main
    i,                 \* main: index of the display being processed
    j,                 \* main: index within current_display_resistors
    placed,            \* history: one entry per record visited by the placement loops
    writes,            \* history: number of times the output file was written in this run
    run,               \* history: 1 for the first run, 2 for a run on the first run's output
    first_input,       \* history: what the first run read (<<>> before)
    first_output,      \* history: what the first run wrote (<<>> before)
    first_placed       \* history: the placement log of the first run

vars == <<input_file, output_file, pc, exception, original_content, start_index,
          footprint_strings, block_starts, all_components, displays, resistors,
          modified_content, i, j, placed, block_now, writes, run, first_input,
          first_output, first_placed>>

parseVars == <<start_index, footprint_strings, block_starts>>
recordVars == <<all_components, displays, resistors>>
placeVars == <<modified_content, i, j, placed, block_now>>
fileVars == <<input_file, output_file, writes, run, first_input, first_output,
              first_placed>>

-----------------------------------------------------------------------------
(* Tokens *)

Tok(kind) == [k |-> kind, v |-> 0, s |-> <<>>]
Str(chars) == [k |-> "str", v |-> 0, s |-> chars]
Num(value, style) == [k |-> "num", v |-> value, s |-> <<style>>]

LP == Tok("(")
RP == Tok(")")
FootprintWord == Tok("footprint")
PropertyWord == Tok("property")
AtWord == Tok("at")
Atom == Tok("x")
Pad == Tok("    ")

Min(S) == CHOOSE m \in S : \A n \in S : m <= n

RECURSIVE Flatten(_)
Flatten(seqs) ==
    IF seqs = <<>> THEN <<>> ELSE Head(seqs) \o Flatten(Tail(seqs))

-----------------------------------------------------------------------------
(* parse_s_expression_blocks *)

\* search_prefix = f"({block_name}"
SearchPrefix(block_name) == <<LP, Tok(block_name)>>

\* content[a:b] for 0 <= a
Slice(content, a, b) == SubSeq(content, a + 1, b)

\* content.index(sub, start); -1 stands for ValueError
IndexFrom(content, sub, start) ==
    LET found == {p \in start..(Len(content) - Len(sub)) :
                      Slice(content, p, p + Len(sub)) = sub}
    IN  IF found = {} THEN -1 ELSE Min(found)

\* the scan without the counter: the first closing parenthesis ends the block
RECURSIVE ScanCloseFlat(_, _, _)
ScanCloseFlat(content, n, open_parens) ==
    IF n >= Len(content) THEN -1
    ELSE IF content[n + 1] = RP THEN n
    ELSE ScanCloseFlat(content, n + 1, open_parens)

\* the for loop of lines 23-38 from index n with the counter at open_parens:
\* the index at which the counter is 0 after the character, -1 if the loop
\* runs off the end of the text (the for-else)
RECURSIVE ScanClose(_, _, _)
ScanClose(content, n, open_parens) ==
    IF n >= Len(content) THEN -1
    ELSE LET c == content[n + 1]
             d == IF c = LP THEN open_parens + 1
                  ELSE IF c = RP THEN open_parens - 1
                  ELSE open_parens
         IN  IF d = 0 THEN n ELSE ScanClose(content, n + 1, d)

\* the cursor moved past the search token only, also after a complete block
AfterBlockRescan(block_start, close) == block_start + 2

\* line 33: the cursor after a complete block ending at index close
AfterBlock(block_start, close) == close + 1

\* the cursor left on the occurrence
AfterUnclosedStuck(block_start, search_len) == block_start

\* line 38: the cursor after an occurrence that is never closed
AfterUnclosed(block_start, search_len) == block_start + search_len

\* one iteration of the while loop: the next cursor, the blocks, and whether
\* the loop goes on
ParseIteration(content, block_name, start, blocks, starts) ==
    LET search_prefix == SearchPrefix(block_name)
        search_len == Len(search_prefix)
        block_start == IndexFrom(content, search_prefix, start)
        close == ScanClose(content, block_start, 0)
    IN  IF block_start = -1
        THEN [more |-> FALSE, start_index |-> start, blocks |-> blocks, starts |-> starts]
        ELSE IF close # -1
        THEN [more |-> TRUE, start_index |-> AfterBlock(block_start, close),
              blocks |-> Append(blocks, Slice(content, block_start, close + 1)),
              starts |-> Append(starts, block_start)]
        ELSE [more |-> TRUE, start_index |-> AfterUnclosed(block_start, search_len),
              blocks |-> blocks, starts |-> starts]

\* the whole function, as a value
RECURSIVE ParseLoop(_, _, _, _, _)
ParseLoop(content, block_name, start, blocks, starts) ==
    LET r == ParseIteration(content, block_name, start, blocks, starts)
    IN  IF r.more
        THEN ParseLoop(content, block_name, r.start_index, r.blocks, r.starts)
        ELSE r

parse_s_expression_blocks(content, block_name) ==
    ParseLoop(content, block_name, 0, <<>>, <<>>).blocks

-----------------------------------------------------------------------------
(* get_footprint_details *)

TokAt(text, n) == IF n >= 0 /\ n < Len(text) THEN text[n + 1] ELSE Tok("<end>")
IsNum(tok) == tok.k = "num"
IsStr(tok) == tok.k = "str"

\* re.search(r'\(\s*footprint\s+"([^"]+)"', footprint_str): offsets of matches
TypeMatches(text) ==
    {p \in 0..(Len(text) - 1) :
        /\ TokAt(text, p) = LP
        /\ TokAt(text, p + 1) = FootprintWord
        /\ IsStr(TokAt(text, p + 2))}

\* re.search(r'\(\s*property\s+"Reference"\s+"([^"]+)"', footprint_str)
RefMatches(text) ==
    {p \in 0..(Len(text) - 1) :
        /\ TokAt(text, p) = LP
        /\ TokAt(text, p + 1) = PropertyWord
        /\ TokAt(text, p + 2) = Str(<<"Reference">>)
        /\ IsStr(TokAt(text, p + 3))}

\* the length of the match of
\* r'\(at\s+([-\d.]+)\s+([-\d.]+)(?:\s+([-\d.]+))?\)' at offset p, 0 if none
AtMatchLen(text, p) ==
    IF /\ TokAt(text, p) = LP
       /\ TokAt(text, p + 1) = AtWord
       /\ IsNum(TokAt(text, p + 2))
       /\ IsNum(TokAt(text, p + 3))
    THEN IF IsNum(TokAt(text, p + 4)) /\ TokAt(text, p + 5) = RP THEN 6
         ELSE IF TokAt(text, p + 4) = RP THEN 5
         ELSE 0
    ELSE 0

AtMatches(text) == {p \in 0..(Len(text) - 1) : AtMatchLen(text, p) > 0}

\* float(s): the value of a numeric token; "bad" tokens raise ValueError
FloatRaises(tok) == tok.s = <<"bad">>
Float(tok) == tok.v

\* the groups of the first match of the at pattern, as tokens
AtGroups(text) ==
    LET p == Min(AtMatches(text))
    IN  IF AtMatchLen(text, p) = 6
        THEN <<TokAt(text, p + 2), TokAt(text, p + 3), TokAt(text, p + 4)>>
        ELSE <<TokAt(text, p + 2), TokAt(text, p + 3)>>

\* lines 64-66: float() of a matched group raises ValueError
DetailsRaise(footprint_str) ==
    /\ AtMatches(footprint_str) # {}
    /\ \E n \in DOMAIN AtGroups(footprint_str) : FloatRaises(AtGroups(footprint_str)[n])

\* the record returned; block is a history field, the index of the block in
\* footprint_strings
get_footprint_details(footprint_str, block) ==
    LET tm == TypeMatches(footprint_str)
        rm == RefMatches(footprint_str)
        am == AtMatches(footprint_str)
        g == IF am = {} THEN <<>> ELSE AtGroups(footprint_str)
    IN  [type |-> IF tm = {} THEN <<>> ELSE <<TokAt(footprint_str, Min(tm) + 2).s>>,
         reference |-> IF rm = {} THEN <<>> ELSE <<TokAt(footprint_str, Min(rm) + 3).s>>,
         x |-> IF am = {} THEN <<>> ELSE <<Float(g[1])>>,
         y |-> IF am = {} THEN <<>> ELSE <<Float(g[2])>>,
         rotation |-> IF Len(g) = 3 THEN <<Float(g[3])>> ELSE <<>>,
         at_string |-> IF am = {} THEN <<>>
                       ELSE <<Slice(footprint_str, Min(am),
                                    Min(am) + AtMatchLen(footprint_str, Min(am)))>>,
         original_string |-> footprint_str,
         block |-> block]

-----------------------------------------------------------------------------
(* sort_components *)

Digits == <<"0", "1", "2", "3", "4", "5", "6", "7", "8", "9">>
IsDigit(ch) == \E d \in DOMAIN Digits : Digits[d] = ch
DigitValue(ch) == (CHOOSE d \in DOMAIN Digits : Digits[d] = ch) - 1

\* str.startswith
StartsWith(chars, prefix) ==
    /\ Len(chars) >= Len(prefix)
    /\ SubSeq(chars, 1, Len(prefix)) = prefix

\* re.search(r'\d+', reference) is None
NoDigits(chars) == \A n \in DOMAIN chars : ~IsDigit(chars[n])

\* int(re.search(r'\d+', reference).group()): the first run of digits
RECURSIVE RunValue(_, _, _)
RunValue(chars, n, acc) ==
    IF n > Len(chars) \/ ~IsDigit(chars[n]) THEN acc
    ELSE RunValue(chars, n + 1, acc * 10 + DigitValue(chars[n]))

SortKey(chars) ==
    RunValue(chars, Min({n \in DOMAIN chars : IsDigit(chars[n])}), 0)

\* line 77: the records kept
KeepsRecord(c, prefix) ==
    c.reference # <<>> /\ StartsWith(c.reference[1], prefix)

RECURSIVE FilterSeq(_, _)
FilterSeq(components, prefix) ==
    IF components = <<>> THEN <<>>
    ELSE IF KeepsRecord(Head(components), prefix)
         THEN <<Head(components)>> \o FilterSeq(Tail(components), prefix)
         ELSE FilterSeq(Tail(components), prefix)

\* the key function raises AttributeError on one of the records kept
SortRaises(components, prefix) ==
    \E n \in DOMAIN components :
        KeepsRecord(components[n], prefix) /\ NoDigits(components[n].reference[1])

\* an unstable order: a record goes before the records of equal key
ComesBeforeOrEqual(c, d) == SortKey(c.reference[1]) <= SortKey(d.reference[1])

\* where sorted() puts c among the records already in order: after every
\* record whose key is not larger (sorted() is stable)
ComesBefore(c, d) == SortKey(c.reference[1]) < SortKey(d.reference[1])

RECURSIVE InsertSorted(_, _)
InsertSorted(sorted, c) ==
    IF sorted = <<>> THEN <<c>>
    ELSE IF ComesBefore(c, Head(sorted)) THEN <<c>> \o sorted
         ELSE <<Head(sorted)>> \o InsertSorted(Tail(sorted), c)

RECURSIVE Sorted(_, _)
Sorted(components, done) ==
    IF components = <<>> THEN done
    ELSE Sorted(Tail(components), InsertSorted(done, Head(components)))

sort_components(components, prefix) == Sorted(FilterSeq(components, prefix), <<>>)

\* line 105 and line 106: the two type filters
DisplayType == <<"External_Parts:ACPSC04-41SEKWA">>
IsDisplayType(c) == c.type = <<DisplayType>>
IsResistorType(c) ==
    c.type # <<>> /\ \E n \in DOMAIN c.type[1] : c.type[1][n] = "Resistor_SMD"

RECURSIVE SelectType(_, _)
SelectType(components, display) ==
    IF components = <<>> THEN <<>>
    ELSE LET c == Head(components)
             keep == IF display THEN IsDisplayType(c) ELSE IsResistorType(c)
         IN  (IF keep THEN <<c>> ELSE <<>>) \o SelectType(Tail(components), display)

DisplayPrefix == <<"S", "E", "G", "D">>
ResistorPrefix == <<"R">>

-----------------------------------------------------------------------------
(* main: the placement *)

\* lines 119-121, in tenths
start_x == 57
start_y == 1991
spacing == 114

\* lines 150-151: the resistors of one display
SliceSize == 15

\* lines 123-129, in tenths
resistor_relative_coords ==
    << <<-57, -40, 900>>,  <<-57, -14, 900>>,  <<-57, 12, -900>>,
       <<-57, 38, -900>>,  <<-57, 65, -900>>,  <<-57, -92, 900>>,
       <<-57, -66, 900>>,  <<-25, -110, 0>>,   <<15, -110, 0>>,
       <<39, -110, 0>>,    <<13, 109, 0>>,     <<-10, 109, 0>>,
       <<-33, 109, 0>>,    <<-57, 92, -1900>>, <<37, 109, 1800>> >>

\* sub in text
Contains(text, sub) == IndexFrom(text, sub, 0) # -1

\* text.replace(old, new, 1)
ReplaceFirst(text, old, new) ==
    LET p == IndexFrom(text, old, 0)
    IN  IF p = -1 THEN text
        ELSE Slice(text, 0, p) \o new \o Slice(text, p + Len(old), Len(text))

\* the index counted from one
NewDisplayXNext(di) == start_x + ((di + 1) * spacing)

\* lines 136-137
NewDisplayX(di) == start_x + (di * spacing)
NewDisplayY == start_y

\* lines 140-141: f"(at {new_display_x:.4f} {new_display_y:.4f}{rot_str})"
DisplayAtStr(display, di) ==
    <<LP, AtWord, Num(NewDisplayX(di), "f4"), Num(NewDisplayY, "f4")>>
    \o (IF display.rotation # <<>> THEN <<Num(display.rotation[1], "repr")>> ELSE <<>>)
    \o <<RP>>

\* lines 159-166: f"(at {new_resistor_x:.4f} {new_resistor_y:.4f} {rel_rot})"
ResistorAtStr(di, slot) ==
    LET rel == resistor_relative_coords[slot + 1]
    IN  <<LP, AtWord, Num(NewDisplayX(di) + rel[1], "f4"),
          Num(NewDisplayY + rel[2], "f4"), Num(rel[3], "int"), RP>>

\* the position field written without the four spaces
PaddedNot(new_at_str) == new_at_str

\* lines 145 and 169: f"    {new_at_str}"
Padded(new_at_str) == <<Pad>> \o new_at_str

\* lines 144 and 168
CanPlace(c, content) == c.at_string # <<>> /\ Contains(content, c.original_string)

\* the block replaced by the position field alone
NewBlockIsAt(c, new_at_str) == <<Pad>> \o new_at_str

\* lines 145 and 169: the block with its position field rewritten
NewBlock(c, new_at_str) ==
    ReplaceFirst(c.original_string, c.at_string[1], Padded(new_at_str))

\* lines 144-146 and 168-170
Substitute(c, new_at_str, content) ==
    IF CanPlace(c, content)
    THEN ReplaceFirst(content, c.original_string, NewBlock(c, new_at_str))
    ELSE content

\* slices that overlap by one resistor
CurrentDisplayResistorsOverlap(all, di) ==
    LET start_resistor_index == di * (SliceSize - 1)
        end_resistor_index == start_resistor_index + SliceSize
        last == IF end_resistor_index < Len(all) THEN end_resistor_index ELSE Len(all)
    IN  IF start_resistor_index >= Len(all) THEN <<>>
        ELSE SubSeq(all, start_resistor_index + 1, last)

\* lines 150-152: resistors[start_resistor_index:end_resistor_index]
CurrentDisplayResistors(all, di) ==
    LET start_resistor_index == di * SliceSize
        end_resistor_index == start_resistor_index + SliceSize
        last == IF end_resistor_index < Len(all) THEN end_resistor_index ELSE Len(all)
    IN  IF start_resistor_index >= Len(all) THEN <<>>
        ELSE Slice(all, start_resistor_index, last)

\* history: the entry logged for a record visited by the placement loops
LogEntry(group, c, di, slot, new_at_str, content, now) ==
    [group |-> group, display |-> di, slot |-> slot, block |-> c.block,
     new_at |-> new_at_str,
     done |-> CanPlace(c, content),
     hit |-> IF CanPlace(c, content) THEN IndexFrom(content, c.original_string, 0) ELSE -1,
     own |-> now[c.block],
     new_block |-> IF c.at_string # <<>> THEN NewBlock(c, new_at_str) ELSE <<>>]

\* history: the starts of the blocks after a substitution at offset hit
Shifted(now, c, new_at_str, content) ==
    IF ~CanPlace(c, content) THEN now
    ELSE LET hit == IndexFrom(content, c.original_string, 0)
             delta == Len(NewBlock(c, new_at_str)) - Len(c.original_string)
         IN  [n \in DOMAIN now |-> IF now[n] > hit THEN now[n] + delta ELSE now[n]]

-----------------------------------------------------------------------------
(* The documents the runs start from *)

MaxLen == 7
MaxBlocks == 2
MaxDisplays == 3
MaxResistors == 16
MaxRuns == 2

ResistorTypeStr == <<"Resistor_SMD", ":R_0603_1608Metric">>
OtherTypeStr == <<"External_Parts:ACPSC04-41SEKWA", "_v2">>

RefChars(prefix, m) ==
    prefix \o (IF m < 10 THEN <<Digits[m + 1]>>
               ELSE <<Digits[(m \div 10) + 1], Digits[(m % 10) + 1]>>)

RefClause(chars) == <<LP, PropertyWord, Str(<<"Reference">>), Str(chars), RP>>
At2(x, y, style) == <<LP, AtWord, Num(x, style), Num(y, style), RP>>
At3(x, y, rot, style) == <<LP, AtWord, Num(x, style), Num(y, style), Num(rot, style), RP>>
Block(type, ref, at) == <<LP, FootprintWord>> \o type \o ref \o at \o <<RP>>

DisplayBlock(m, at) == Block(<<Str(DisplayType)>>, RefClause(RefChars(DisplayPrefix, m)), at)
ResistorBlock(m, at) == Block(<<Str(ResistorTypeStr)>>, RefClause(RefChars(ResistorPrefix, m)), at)

\* every text of at most MaxLen tokens over the parentheses and the tag
ParserTexts ==
    {<<>>} \cup UNION {[1..n -> {LP, RP, FootprintWord}] : n \in 1..MaxLen}

\* the pieces small documents are made of
Items ==
    { DisplayBlock(1, At3(0, 0, 900, "int")),
      DisplayBlock(2, At2(100, 200, "int")),
      \* a display already standing where the first display is put
      DisplayBlock(1, <<Pad>> \o <<LP, AtWord, Num(start_x, "f4"), Num(start_y, "f4"),
                                   Num(900, "repr"), RP>>),
      \* a display reference without a digit
      Block(<<Str(DisplayType)>>, RefClause(DisplayPrefix), At2(0, 0, "int")),
      \* a display without a position field, first in the order
      DisplayBlock(0, <<>>),
      ResistorBlock(1, At2(10, 10, "int")),
      ResistorBlock(10, At3(10, 10, 0, "int")),
      \* a library resistor: reference REF**
      Block(<<Str(ResistorTypeStr)>>, RefClause(<<"R", "E", "F", "*", "*">>),
            At2(10, 10, "int")),
      \* a position field whose number is not a number
      ResistorBlock(3, <<LP, AtWord, Num(0, "bad"), Num(10, "int"), RP>>),
      \* a footprint of another type around a display
      Block(<<Str(<<"Other">>)>>, <<>>, DisplayBlock(1, At3(0, 0, 900, "int"))),
      \* a footprint that is never closed
      <<LP, FootprintWord, Atom>>,
      \* a footprint of neither group
      Block(<<Str(OtherTypeStr)>>, RefClause(RefChars(DisplayPrefix, 9)), At2(10, 10, "int")),
      \* a footprint without a type, a reference or a position
      <<LP, FootprintWord, RP>> }

SmallDocuments == UNION {{Flatten(f) : f \in [1..n -> Items]} : n \in 1..MaxBlocks}

\* a board of d displays and r resistors, both written in descending order
RECURSIVE ResistorsDown(_)
ResistorsDown(r) ==
    IF r = 0 THEN <<>>
    ELSE ResistorBlock(r, At3(10 * r, 10, 0, "int")) \o ResistorsDown(r - 1)

RECURSIVE DisplaysDown(_)
DisplaysDown(d) ==
    IF d = 0 THEN <<>>
    ELSE DisplayBlock(d, At3(0, 10 * d, 900, "int")) \o DisplaysDown(d - 1)

Board(d, r) == <<LP, Atom>> \o ResistorsDown(r) \o DisplaysDown(d) \o <<RP>>

Boards == {Board(d, r) : d \in 1..MaxDisplays, r \in 0..MaxResistors}

Documents == ParserTexts \cup SmallDocuments \cup Boards

-----------------------------------------------------------------------------
(* main *)

Init ==
    /\ input_file \in {<<>>} \cup {<<d>> : d \in Documents}
    /\ output_file = <<>>
    /\ pc = "start"
    /\ exception = ""
    /\ original_content = <<>>
    /\ start_index = 0
    /\ footprint_strings = <<>>
    /\ block_starts = <<>>
    /\ block_now = <<>>
    /\ all_components = <<>>
    /\ displays = <<>>
    /\ resistors = <<>>
    /\ modified_content = <<>>
    /\ i = 0
    /\ j = 0
    /\ placed = <<>>
    /\ writes = 0
    /\ run = 1
    /\ first_input = <<>>
    /\ first_output = <<>>
    /\ first_placed = <<>>

\* lines 88-94: the input file is absent
ReadMissing ==
    /\ pc = "start"
    /\ input_file = <<>>
    /\ pc' = "returned"
    /\ UNCHANGED <<exception, original_content, parseVars, recordVars, placeVars, fileVars>>

\* lines 88-90, and the call of line 97 up to its loop
ReadFile ==
    /\ pc = "start"
    /\ input_file # <<>>
    /\ original_content' = input_file[1]
    /\ start_index' = 0
    /\ footprint_strings' = <<>>
    /\ block_starts' = <<>>
    /\ pc' = "parse"
    /\ UNCHANGED <<exception, recordVars, placeVars, fileVars>>

ThisIteration ==
    ParseIteration(original_content, "footprint", start_index, footprint_strings,
                   block_starts)

\* lines 14-34: an iteration that finds a complete block
ParseBlock ==
    /\ pc = "parse"
    /\ ThisIteration.more
    /\ Len(ThisIteration.blocks) > Len(footprint_strings)
    /\ start_index' = ThisIteration.start_index
    /\ footprint_strings' = ThisIteration.blocks
    /\ block_starts' = ThisIteration.starts
    /\ UNCHANGED <<pc, exception, original_content, recordVars, placeVars, fileVars>>

\* lines 14-38: an iteration that finds an occurrence that is never closed
ParseUnclosed ==
    /\ pc = "parse"
    /\ ThisIteration.more
    /\ Len(ThisIteration.blocks) = Len(footprint_strings)
    /\ start_index' = ThisIteration.start_index
    /\ UNCHANGED <<pc, exception, original_content, footprint_strings, block_starts,
                   recordVars, placeVars, fileVars>>

\* lines 18-20 and 40: no further occurrence
ParseEnd ==
    /\ pc = "parse"
    /\ ~ThisIteration.more
    /\ pc' = "parsed"
    /\ UNCHANGED <<exception, original_content, parseVars, recordVars, placeVars, fileVars>>

\* lines 98-100
NoFootprints ==
    /\ pc = "parsed"
    /\ footprint_strings = <<>>
    /\ pc' = "returned"
    /\ UNCHANGED <<exception, original_content, parseVars, recordVars, placeVars, fileVars>>

\* line 102
Details ==
    /\ pc = "parsed"
    /\ footprint_strings # <<>>
    /\ IF \E n \in DOMAIN footprint_strings : DetailsRaise(footprint_strings[n])
       THEN /\ pc' = "raised"
            /\ exception' = "ValueError"
            /\ UNCHANGED all_components
       ELSE /\ pc' = "details"
            /\ all_components' = [n \in DOMAIN footprint_strings |->
                                     get_footprint_details(footprint_strings[n], n)]
            /\ UNCHANGED exception
    /\ UNCHANGED <<original_content, parseVars, displays, resistors, placeVars, fileVars>>

\* lines 105-106
FilterSort ==
    /\ pc = "details"
    /\ LET d == SelectType(all_components, TRUE)
           r == SelectType(all_components, FALSE)
       IN  IF SortRaises(d, DisplayPrefix) \/ SortRaises(r, ResistorPrefix)
           THEN /\ pc' = "raised"
                /\ exception' = "AttributeError"
                /\ UNCHANGED <<displays, resistors>>
           ELSE /\ pc' = "sorted"
                /\ displays' = sort_components(d, DisplayPrefix)
                /\ resistors' = sort_components(r, ResistorPrefix)
                /\ UNCHANGED exception
    /\ UNCHANGED <<original_content, parseVars, all_components, placeVars, fileVars>>

\* the early return of line 113 left out: the file is written all the same
NoDisplaysWrites ==
    /\ pc = "sorted"
    /\ displays = <<>>
    /\ output_file' = <<original_content>>
    /\ writes' = writes + 1
    /\ pc' = "done"
    /\ UNCHANGED <<input_file, run, first_input, first_output, first_placed, exception,
                   original_content, parseVars, recordVars, placeVars>>

\* lines 111-113
NoDisplays ==
    /\ pc = "sorted"
    /\ displays = <<>>
    /\ pc' = "returned"
    /\ UNCHANGED <<exception, original_content, parseVars, recordVars, placeVars, fileVars>>

\* lines 114-131: the warning stops nothing
BeginPlacement ==
    /\ pc = "sorted"
    /\ displays # <<>>
    /\ modified_content' = original_content
    /\ block_now' = block_starts
    /\ i' = 0
    /\ j' = 0
    /\ placed' = <<>>
    /\ pc' = "display"
    /\ UNCHANGED <<exception, original_content, parseVars, recordVars, fileVars>>

\* lines 134-152: the display of index i
PlaceDisplay ==
    /\ pc = "display"
    /\ i < Len(displays)
    /\ LET display == displays[i + 1]
           new_at_str == DisplayAtStr(display, i)
       IN  /\ modified_content' = Substitute(display, new_at_str, modified_content)
           /\ placed' = Append(placed, LogEntry("display", display, i, 0, new_at_str,
                                                modified_content, block_now))
           /\ block_now' = Shifted(block_now, display, new_at_str, modified_content)
    /\ j' = 0
    /\ pc' = "resistors"
    /\ UNCHANGED <<i, exception, original_content, parseVars, recordVars, fileVars>>

\* lines 154-170: the resistor of index j of the slice of display i
PlaceResistor ==
    /\ pc = "resistors"
    /\ j < Len(CurrentDisplayResistors(resistors, i))
    /\ LET resistor == CurrentDisplayResistors(resistors, i)[j + 1]
       IN  IF j >= Len(resistor_relative_coords)
           THEN UNCHANGED <<modified_content, placed, block_now>>
           ELSE LET new_resistor_at_str == ResistorAtStr(i, j)
                IN  /\ modified_content' =
                           Substitute(resistor, new_resistor_at_str, modified_content)
                    /\ placed' = Append(placed, LogEntry("resistor", resistor, i, j,
                                            new_resistor_at_str, modified_content, block_now))
                    /\ block_now' = Shifted(block_now, resistor, new_resistor_at_str,
                                            modified_content)
    /\ j' = j + 1
    /\ UNCHANGED <<i, pc, exception, original_content, parseVars, recordVars, fileVars>>

\* line 154: the slice is exhausted; line 134: the next display
NextDisplay ==
    /\ pc = "resistors"
    /\ j >= Len(CurrentDisplayResistors(resistors, i))
    /\ i' = i + 1
    /\ pc' = "display"
    /\ UNCHANGED <<j, exception, original_content, parseVars, recordVars,
                   modified_content, placed, block_now, fileVars>>

\* lines 173-177
WriteOutput ==
    /\ pc = "display"
    /\ i >= Len(displays)
    /\ output_file' = <<modified_content>>
    /\ writes' = writes + 1
    /\ pc' = "done"
    /\ UNCHANGED <<input_file, run, first_input, first_output, first_placed, exception,
                   original_content, parseVars, recordVars, placeVars>>

\* lines 179-180 and 85-86: the tool is run again, on what it wrote
Rerun ==
    /\ pc = "done"
    /\ run < MaxRuns
    /\ input_file' = output_file
    /\ first_input' = input_file
    /\ first_output' = output_file
    /\ first_placed' = placed
    /\ run' = run + 1
    /\ writes' = 0
    /\ pc' = "start"
    /\ original_content' = <<>>
    /\ start_index' = 0
    /\ footprint_strings' = <<>>
    /\ block_starts' = <<>>
    /\ block_now' = <<>>
    /\ all_components' = <<>>
    /\ displays' = <<>>
    /\ resistors' = <<>>
    /\ modified_content' = <<>>
    /\ i' = 0
    /\ j' = 0
    /\ placed' = <<>>
    /\ UNCHANGED <<output_file, exception>>

Next ==
    \/ ReadMissing
    \/ ReadFile
    \/ ParseBlock
    \/ ParseUnclosed
    \/ ParseEnd
    \/ NoFootprints
    \/ Details
    \/ FilterSort
    \/ NoDisplays
    \/ BeginPlacement
    \/ PlaceDisplay
    \/ PlaceResistor
    \/ NextDisplay
    \/ WriteOutput
    \/ Rerun

Spec == Init /\ [][Next]_vars

-----------------------------------------------------------------------------
(* What a document holds, stated without the extractor *)

\* the offsets at which the search token (footprint occurs
Occurrences(content) ==
    {p \in 0..(Len(content) - 2) :
        content[p + 1] = LP /\ content[p + 2] = FootprintWord}

\* the number of ( minus the number of ) among content[p:e]
RelDepth(content, p, e) ==
    Cardinality({m \in (p + 1)..e : content[m] = LP})
    - Cardinality({m \in (p + 1)..e : content[m] = RP})

\* equal counts of ( and ), and the depth is never zero before the last token
Balanced(text) ==
    /\ text # <<>>
    /\ \A n \in 1..(Len(text) - 1) : RelDepth(text, 0, n) > 0
    /\ RelDepth(text, 0, Len(text)) = 0

\* the offsets e such that content[p:e] is a balanced expression (at most one)
ClosesOf(content, p) ==
    {e \in (p + 1)..Len(content) :
        /\ content[e] = RP
        /\ \A m \in (p + 1)..(e - 1) : RelDepth(content, p, m) > 0
        /\ RelDepth(content, p, e) = 0}

\* the complete (footprint ...) expressions, as pairs <<p, e>>: content[p:e]
Expressions(content) ==
    UNION {{<<p, e>> : e \in ClosesOf(content, p)} : p \in Occurrences(content)}

\* the occurrences that are never closed
UnclosedOccurrences(content) ==
    LET exprs == Expressions(content)
    IN  {p \in Occurrences(content) : \A x \in exprs : x[1] # p}

\* the occurrences that lie inside no complete (footprint ...) expression
TopLevelOccurrences(content) ==
    LET exprs == Expressions(content)
    IN  {q \in Occurrences(content) : \A x \in exprs : ~(x[1] < q /\ q < x[2])}

\* every (footprint opens a balanced expression, and none lies inside another
WellFormedDocument(content) ==
    /\ UnclosedOccurrences(content) = {}
    /\ TopLevelOccurrences(content) = Occurrences(content)

\* the blocks are texts of the document at the offsets recorded
BlocksAreSpans ==
    \A n \in DOMAIN footprint_strings :
        footprint_strings[n] =
            Slice(original_content, block_starts[n],
                  block_starts[n] + Len(footprint_strings[n]))

\* C1: from a document holding k well-formed, non-nested (footprint ...)
\* expressions the extractor returns exactly k blocks, in document order, each
\* starting with (footprint and each balanced.
C1_ExtractsEveryBlock ==
    (pc = "parsed" /\ WellFormedDocument(original_content)) =>
        /\ Len(footprint_strings) = Cardinality(Occurrences(original_content))
        /\ BlocksAreSpans
        /\ \A n \in DOMAIN footprint_strings :
              /\ block_starts[n] \in Occurrences(original_content)
              /\ Slice(footprint_strings[n], 0, 2) = SearchPrefix("footprint")
              /\ Balanced(footprint_strings[n])
        /\ \A n \in 1..(Len(block_starts) - 1) : block_starts[n] < block_starts[n + 1]

\* two blocks extracted from a well-formed document, one with parentheses inside
C1_Witness ==
    /\ pc = "parsed"
    /\ WellFormedDocument(original_content)
    /\ Len(footprint_strings) = 2
    /\ \E n \in DOMAIN footprint_strings : Len(footprint_strings[n]) > 3

StartsOf(starts) == {starts[n] : n \in DOMAIN starts}

ParseProgress ==
    (pc = "parse" /\ pc' = "parse") => start_index' > start_index

\* the cursor stays within the text, and the iteration the loop is about to
\* run either ends the loop or moves the cursor forward
ParseGoesOn ==
    pc = "parse" =>
        /\ start_index <= Len(original_content)
        /\ ThisIteration.more => ThisIteration.start_index > start_index

UnclosedDropped ==
    /\ pc \in {"parse", "parsed"} => exception = ""
    /\ pc = "parsed" =>
          /\ StartsOf(block_starts) \cap UnclosedOccurrences(original_content) = {}
          /\ (TopLevelOccurrences(original_content)
                 \ UnclosedOccurrences(original_content)) \subseteq StartsOf(block_starts)

\* C2: the extractor terminates without raising; the cursor strictly increases
\* in every iteration; an occurrence that is never closed gives no block, and
\* the occurrences after it are still examined.
C2_ParseTerminates ==
    /\ [][ParseProgress]_vars
    /\ []ParseGoesOn
    /\ []UnclosedDropped

\* an occurrence never closed, dropped, and a later one extracted
C2_Witness ==
    /\ pc = "parsed"
    /\ \E p \in UnclosedOccurrences(original_content) :
          \E q \in StartsOf(block_starts) : q > p

NonOverlapping ==
    \A n \in 1..(Len(block_starts) - 1) :
        block_starts[n] + Len(footprint_strings[n]) <= block_starts[n + 1]

-----------------------------------------------------------------------------
(* The early returns *)

Ended == pc \in {"returned", "raised", "done"}

\* the records of the blocks of a text
RecordsOf(content) ==
    LET blocks == parse_s_expression_blocks(content, "footprint")
    IN  [n \in DOMAIN blocks |-> get_footprint_details(blocks[n], n)]

\* the three conditions under which main reports and returns
InputAbsent == input_file = <<>>
NoBlocks == parse_s_expression_blocks(input_file[1], "footprint") = <<>>
NoDisplayRecords ==
    LET records == RecordsOf(input_file[1])
    IN  \A n \in DOMAIN records :
            ~(/\ records[n].type = <<DisplayType>>
              /\ records[n].reference # <<>>
              /\ StartsWith(records[n].reference[1], DisplayPrefix))

FatalSoft == InputAbsent \/ NoBlocks \/ NoDisplayRecords

\* C3: the output file is written iff none of the three conditions holds: with
\* the input absent, no block extracted or no display record kept, main
\* returns having written nothing; every other run that does not raise writes
\* the file exactly once, at its end, after all substitutions; too few
\* resistors stop nothing.
C3_WritesIffNotFatalSoft ==
    /\ writes <= 1
    /\ writes = 1 <=> pc = "done"
    /\ pc = "done" => output_file = <<modified_content>> /\ i = Len(displays)
    /\ pc = "raised" <=> exception # ""
    /\ Ended => /\ pc = "returned" <=> (FatalSoft /\ exception = "")
                /\ FatalSoft => writes = 0
                /\ (~FatalSoft /\ pc # "raised") => writes = 1

\* a run that wrote the file with fewer than 15 resistors for a display
C3_Witness ==
    /\ pc = "done"
    /\ writes = 1
    /\ Len(resistors) < Len(displays) * SliceSize
    /\ \E n \in DOMAIN placed : placed[n].done

\* C4 as stated: whatever the records extracted, a record with the prefix of
\* its group and no digit in its reference, or one without a position field,
\* is skipped, and no exception leaves main during filtering, sorting and
\* placement.
C4_NoRecordIsFatal == exception # "AttributeError"

-----------------------------------------------------------------------------
(* The output document *)

Placing == pc \in {"display", "resistors", "done"}

\* the extraction of the output written
OutputBlocks == ParseLoop(output_file[1], "footprint", 0, <<>>, <<>>)

\* the texts before, between and after the blocks
Gaps(content, starts, blocks) ==
    [n \in 0..Len(blocks) |->
        Slice(content,
              IF n = 0 THEN 0 ELSE starts[n] + Len(blocks[n]),
              IF n = Len(blocks) THEN Len(content) ELSE starts[n + 1])]

\* the text of a block before and after its first position field
BeforeAt(block) == Slice(block, 0, Min(AtMatches(block)))
AfterAt(block) ==
    Slice(block, Min(AtMatches(block)) + AtMatchLen(block, Min(AtMatches(block))),
          Len(block))

\* runs of four spaces followed by one position field and nothing else
IsPositionField(text) ==
    \E q \in 0..(Len(text) - 1) :
        /\ \A m \in 1..q : text[m] = Pad
        /\ AtMatchLen(text, q) = Len(text) - q

\* new is old with nothing but the span of its first position field replaced
FrameOf(new, old) ==
    /\ Len(new) >= Len(BeforeAt(old)) + Len(AfterAt(old))
    /\ Slice(new, 0, Len(BeforeAt(old))) = BeforeAt(old)
    /\ Slice(new, Len(new) - Len(AfterAt(old)), Len(new)) = AfterAt(old)
    /\ IsPositionField(Slice(new, Len(BeforeAt(old)), Len(new) - Len(AfterAt(old))))

\* the records the placement relocates: the displays and the resistors of
\* sorted index below 15 times the number of displays, with a position field
IsRelocated(n) ==
    /\ all_components[n].at_string # <<>>
    /\ \/ \E k \in DOMAIN displays : displays[k].block = n
       \/ \E k \in DOMAIN resistors :
             resistors[k].block = n /\ k - 1 < SliceSize * Len(displays)

FrameHolds ==
    /\ Len(OutputBlocks.blocks) = Len(footprint_strings)
    /\ Gaps(output_file[1], OutputBlocks.starts, OutputBlocks.blocks)
         = Gaps(original_content, block_starts, footprint_strings)
    /\ \A n \in DOMAIN footprint_strings :
          IF IsRelocated(n)
          THEN FrameOf(OutputBlocks.blocks[n], footprint_strings[n])
          ELSE OutputBlocks.blocks[n] = footprint_strings[n]

\* no (footprint lies inside a complete (footprint ...) expression
NoNestedFootprint(content) == TopLevelOccurrences(content) = Occurrences(content)

\* C5 as stated: whenever main writes, the output is the input with only the
\* position fields of relocated displays and resistors replaced; the text
\* outside the blocks, the blocks of neither group, the records without a
\* position field and the resistors of sorted index 15 * displays and beyond
\* are unchanged.
C5_FrameOfEveryDocument == pc = "done" => FrameHolds

\* C5 amended: the same, for documents in which no (footprint lies inside a
\* complete (footprint ...) expression.
C5_FrameOfFlatDocuments ==
    pc = "done" => (FrameHolds \/ ~NoNestedFootprint(original_content))

\* a flat document written with a relocated block, an untouched footprint of
\* neither group and text outside the blocks
C5_Witness ==
    /\ pc = "done"
    /\ NoNestedFootprint(original_content)
    /\ \E n \in DOMAIN placed : placed[n].done
    /\ \E n \in DOMAIN footprint_strings :
          /\ ~IsRelocated(n)
          /\ all_components[n].at_string # <<>>
    /\ block_starts[1] > 0

-----------------------------------------------------------------------------
(* The placement *)

\* the value of the digits chars[a..b], from the right
RECURSIVE DecimalValue(_, _, _)
DecimalValue(chars, a, b) ==
    IF b < a THEN 0
    ELSE DigitValue(chars[b]) + 10 * DecimalValue(chars, a, b - 1)

\* the integer written by the first run of digits of a reference
FirstRunValue(chars) ==
    LET a == Min({n \in DOMAIN chars : IsDigit(chars[n])})
        b == Min({n \in a..Len(chars) : n = Len(chars) \/ ~IsDigit(chars[n + 1])})
    IN  DecimalValue(chars, a, b)

\* a group is the records of its type and prefix, by ascending number, records
\* of equal number in extraction order
GroupSorted(group, display, prefix) ==
    /\ {group[k].block : k \in DOMAIN group}
         = {n \in DOMAIN all_components :
               /\ IF display THEN all_components[n].type = <<DisplayType>>
                  ELSE IsResistorType(all_components[n])
               /\ all_components[n].reference # <<>>
               /\ StartsWith(all_components[n].reference[1], prefix)}
    /\ \A a, b \in DOMAIN group :
          a < b =>
            LET ka == FirstRunValue(group[a].reference[1])
                kb == FirstRunValue(group[b].reference[1])
            IN  ka < kb \/ (ka = kb /\ group[a].block < group[b].block)

IsDisplayEntry(e) == e.group = "display"
IsResistorEntry(e) == e.group = "resistor"
DisplayEntries == SelectSeq(placed, IsDisplayEntry)
ResistorEntries == SelectSeq(placed, IsResistorEntry)

\* the position field a display of sorted index k is to receive: the grid
\* position, and the rotation its block had, if any
ExpectedDisplayAt(k, block) ==
    LET m == Min(AtMatches(block))
    IN  <<LP, AtWord, Num(57 + 114 * k, "f4"), Num(1991, "f4")>>
        \o (IF AtMatchLen(block, m) = 6
            THEN <<Num(TokAt(block, m + 4).v, "repr")>> ELSE <<>>)
        \o <<RP>>

\* every substitution made so far replaced the block of its own record
AllOnTarget == \A n \in DOMAIN placed : placed[n].done => placed[n].hit = placed[n].own

\* the block of the output for a log entry is the original with its position
\* field replaced by the expected one
WrittenAs(e, expected) ==
    OutputBlocks.blocks[e.block] =
        BeforeAt(footprint_strings[e.block]) \o <<Pad>> \o expected
        \o AfterAt(footprint_strings[e.block])

ExpectedResistorAt(k) ==
    LET slot == resistor_relative_coords[(k % 15) + 1]
    IN  <<LP, AtWord, Num(57 + 114 * (k \div 15) + slot[1], "f4"),
          Num(1991 + slot[2], "f4"), Num(slot[3], "int"), RP>>

EntriesOf(n) == {m \in DOMAIN ResistorEntries : ResistorEntries[m].block = n}

FirstRunPlacedDisplay ==
    \E n \in DOMAIN first_placed : first_placed[n].group = "display" /\ first_placed[n].done

\* C8: run on its own output, after a run that relocated a display, the tool
\* writes a document that differs from that output, and from the original.
C8_SecondRunDiffers ==
    (run = 2 /\ FirstRunPlacedDisplay) =>
        /\ pc \notin {"returned", "raised"}
        /\ pc = "done" =>
              /\ output_file # first_output
              /\ output_file # first_input
              /\ \E n \in DOMAIN placed : placed[n].done

C8_Witness ==
    /\ run = 2
    /\ pc = "done"
    /\ FirstRunPlacedDisplay
    /\ Len(output_file[1]) > Len(first_output[1])

\* an earlier substitution of this run wrote a block equal to the original
\* text of the record of entry n
RewrittenBefore(n) ==
    \E a \in 1..(n - 1) :
        placed[a].done /\ placed[a].new_block = footprint_strings[placed[n].block]

\* C10 as stated: in a document of well-formed, non-nested footprint blocks
\* every substitution rewrites the block its record was derived from.
C10_EverySubstitutionOnOwnBlock ==
    Placing => (AllOnTarget \/ ~WellFormedDocument(original_content))

\* C10 amended: the same, for every record whose original text is not the
\* text an earlier substitution of the run wrote.
C10_OwnBlockUnlessRewrittenText ==
    Placing =>
        \/ \A n \in DOMAIN placed :
              \/ placed[n].done => placed[n].hit = placed[n].own
              \/ RewrittenBefore(n)
        \/ ~WellFormedDocument(original_content)

\* two byte-identical blocks, both relocated
C10_Witness ==
    /\ pc = "done"
    /\ WellFormedDocument(original_content)
    /\ \E a, b \in DOMAIN placed :
          /\ a < b
          /\ placed[a].done /\ placed[b].done
          /\ placed[a].block # placed[b].block
          /\ footprint_strings[placed[a].block] = footprint_strings[placed[b].block]
          /\ placed[b].hit = placed[b].own

====
